---- MODULE Spec2Model ----
(***************************************************************************)
(* fai-protocol: content-addressed object store (src/storage/mod.rs), the  *)
(* metadata index (src/database/mod.rs) and the repository service         *)
(* (src/lib.rs), with the pull path of src/main.rs and src/network/mod.rs. *)
(*                                                                         *)
(* Byte strings are sequences of tokens (each token stands for one byte).  *)
(* A BLAKE3 hex digest is modelled as a collision-free string computed     *)
(* from the content.                                                       *)
(***************************************************************************)
EXTENDS Integers, Sequences, FiniteSets, TLC

VARIABLES
    objects,        \* .fai/objects: digest -> bytes at the final object path
    returned,       \* history: <<bytes, digest>> of every store() that returned Ok
    last,           \* the last operation and what it returned
    ops,            \* number of operations performed so far
    staging,        \* db.sqlite staging table: rows [file_path, file_hash, file_size]
    commits,        \* db.sqlite commits table: hash -> [message, timestamp, is_merge]
    commit_parents, \* db.sqlite commit_parents rows
    commit_files,   \* db.sqlite commit_files rows
    HEAD,           \* content of the .fai/HEAD file
    now,            \* wall clock, milliseconds
    put,            \* history: hash -> arguments of the create_commit that inserted it
    mcommits,       \* metadata.db commits table: hash -> [message, timestamp]
    mcommit_files,  \* metadata.db commit_files rows
    net             \* requests and responses between this node and the peer

storeVars == <<objects, returned>>
repoVars == <<staging, commits, commit_parents, commit_files, HEAD, now, put>>
metaVars == <<mcommits, mcommit_files>>
vars == <<objects, returned, last, ops, staging, commits, commit_parents,
          commit_files, HEAD, now, put, mcommits, mcommit_files, net>>

(***************************************************************************)
(* Bounds                                                                  *)
(***************************************************************************)
\* Chunk size in tokens (the program's value is 1024 * 1024 bytes; the model
\* keeps the relation "a serialized manifest fits in one chunk").
CHUNK_SIZE == 4
\* Object store operations per run.
MaxOps == 3
\* Failed object writes per run.
MaxFaults == 1
\* Repository operations per run.
MaxRepoOps == 4
\* Largest wall-clock value.
MaxTime == 1
\* Staging table operations per run.
MaxStageOps == 3
\* Requests this node sends to the peer per run.
MaxRequests == 2
\* Requests of the peer this node receives per run.
MaxInbound == 2

(***************************************************************************)
(* Bytes                                                                   *)
(***************************************************************************)
WS == " "       \* an ASCII whitespace byte
LB == "{"       \* the byte '{'
RB == "}"       \* the byte '}'
XFF == "xFF"    \* a byte that makes the data invalid UTF-8
A == "a"        \* any other ASCII byte

Min(a, b) == IF a < b THEN a ELSE b

Fill(c, n) == [i \in 1..n |-> c]

\* blake3::Hasher::new().update(data).finalize().to_hex().to_string(); the
\* empty input has one digest, however the empty sequence was built.
Hash(data) == IF Len(data) = 0 THEN ToString(<<>>) ELSE ToString(data)

\* std::str::from_utf8(&data).is_ok()
IsUtf8(data) == \A i \in 1..Len(data) : data[i] # XFF

\* str::trim_start
RECURSIVE TrimStart(_)
TrimStart(s) ==
    IF Len(s) > 0 /\ s[1] = WS THEN TrimStart(Tail(s)) ELSE s

\* str::trim_end (serde_json accepts trailing whitespace)
RECURSIVE TrimEnd(_)
TrimEnd(s) ==
    IF Len(s) > 0 /\ s[Len(s)] = WS THEN TrimEnd(SubSeq(s, 1, Len(s) - 1)) ELSE s

\* manifest_str.trim_start().starts_with('{')
StartsWithBrace(s) ==
    LET t == TrimStart(s) IN Len(t) > 0 /\ t[1] = LB

(***************************************************************************)
(* FileManifest and its JSON form                                          *)
(***************************************************************************)
IsSizeToken(t) == \E n \in 0..(4 * CHUNK_SIZE) : ToString(n) = t
SizeOf(t) == CHOOSE n \in 0..(4 * CHUNK_SIZE) : ToString(n) = t
IsStringToken(t) == t \notin {WS, LB, RB, XFF}

\* serde_json::to_string_pretty(&FileManifest {total_size, chunks, filename: None})
ToJson(total_size, chunks) == <<LB, ToString(total_size)>> \o chunks \o <<RB>>

\* serde_json::from_str::<FileManifest>(manifest_str)
FromJson(s) ==
    LET t == TrimEnd(TrimStart(s))
        n == Len(t)
        good == /\ n >= 3
                /\ t[1] = LB
                /\ t[n] = RB
                /\ IsSizeToken(t[2])
                /\ \A i \in 3..(n - 1) : IsStringToken(t[i])
    IN  IF good
        THEN [ok |-> TRUE, total_size |-> SizeOf(t[2]), chunks |-> SubSeq(t, 3, n - 1)]
        ELSE [ok |-> FALSE, total_size |-> 0, chunks |-> <<>>]

Ok(data) == [ok |-> TRUE, data |-> data]
Err == [ok |-> FALSE, data |-> <<>>]

(***************************************************************************)
(* StorageManager                                                          *)
(***************************************************************************)
\* The directory objects/<prefix> exists: store_single_object created it for
\* an object whose digest begins with prefix.
ShardExists(objs, prefix) ==
    \E d \in DOMAIN objs : Len(d) >= 2 /\ SubSeq(d, 1, 2) = prefix

\* StorageManager::exists: Path::exists of objects/<hash[..2]>/<hash[2..]>.
\* For a hash of two characters the suffix is empty and the path names the
\* shard directory itself.
Exists(objs, hash) ==
    /\ Len(hash) >= 2
    /\ \/ hash \in DOMAIN objs
       \/ Len(hash) = 2 /\ ShardExists(objs, hash)

\* StorageManager::retrieve_single_chunk
RetrieveSingleChunk(objs, hash) ==
    IF Len(hash) < 2 THEN Err
    ELSE IF hash \in DOMAIN objs THEN Ok(objs[hash]) ELSE Err

\* StorageManager::reconstruct_from_manifest
RECURSIVE ConcatChunks(_, _)
ConcatChunks(objs, chunks) ==
    IF chunks = <<>> THEN Ok(<<>>)
    ELSE LET c == RetrieveSingleChunk(objs, Head(chunks))
             rest == ConcatChunks(objs, Tail(chunks))
         IN  IF c.ok /\ rest.ok THEN Ok(c.data \o rest.data) ELSE Err

ReconstructFromManifest(objs, manifest_str) ==
    LET m == FromJson(manifest_str)
    IN  IF m.ok THEN ConcatChunks(objs, m.chunks) ELSE Err

\* StorageManager::retrieve
Retrieve(objs, hash) ==
    IF Len(hash) < 2 THEN Err
    ELSE IF hash \notin DOMAIN objs THEN Err
    ELSE LET data == objs[hash]
         IN  IF IsUtf8(data) /\ StartsWithBrace(data)
             THEN ReconstructFromManifest(objs, data)
             ELSE Ok(data)

\* StorageManager::chunk_file: data.chunks(CHUNK_SIZE)
RECURSIVE ChunkFile(_)
ChunkFile(data) ==
    IF Len(data) = 0 THEN <<>>
    ELSE LET k == Min(CHUNK_SIZE, Len(data))
         IN  <<SubSeq(data, 1, k)>> \o ChunkFile(SubSeq(data, k + 1, Len(data)))

\* The object write of store_single_object: fs::write(&object_path, data).
\* keep < 0: the write completes.  keep >= 0: the write fails after the file
\* was created and `keep` bytes were written.
WriteObject(objs, hash, data, keep) ==
    IF keep < 0
    THEN [objs |-> [d \in DOMAIN objs \cup {hash} |-> IF d = hash THEN data ELSE objs[d]],
          ok |-> TRUE]
    ELSE [objs |-> [d \in DOMAIN objs \cup {hash} |->
                        IF d = hash THEN SubSeq(data, 1, Min(keep, Len(data) - 1)) ELSE objs[d]],
          ok |-> FALSE]

\* store_single_object without its `if !object_path.exists()` test.
StoreSingleObjectAlwaysWrite(objs, data, keep) ==
    LET hash == Hash(data)
        w == WriteObject(objs, hash, data, IF Len(data) = 0 THEN -1 ELSE keep)
    IN  [objs |-> w.objs, ok |-> w.ok, hash |-> hash]

\* StorageManager::store_single_object
StoreSingleObject(objs, data, keep) ==
    LET hash == Hash(data)
    IN  IF hash \notin DOMAIN objs
        THEN LET w == WriteObject(objs, hash, data, IF Len(data) = 0 THEN -1 ELSE keep)
             IN  [objs |-> w.objs, ok |-> w.ok, hash |-> hash]
        ELSE [objs |-> objs, ok |-> TRUE, hash |-> hash]

\* The chunk loop of StorageManager::store; the failAt-th object write fails.
RECURSIVE StoreChunks(_, _, _, _, _)
StoreChunks(objs, chunks, i, failAt, keep) ==
    IF i > Len(chunks) THEN [objs |-> objs, ok |-> TRUE]
    ELSE LET r == StoreSingleObject(objs, chunks[i], IF failAt = i THEN keep ELSE -1)
         IN  IF r.ok THEN StoreChunks(r.objs, chunks, i + 1, failAt, keep)
             ELSE [objs |-> r.objs, ok |-> FALSE]

\* chunks.iter().map(|(_, data)| data.len() as u64).sum()
RECURSIVE TotalSize(_)
TotalSize(chunks) ==
    IF chunks = <<>> THEN 0 ELSE Len(Head(chunks)) + TotalSize(Tail(chunks))

\* StorageManager::create_manifest
CreateManifest(objs, chunks, keep) ==
    StoreSingleObject(objs,
                      ToJson(TotalSize(chunks), [i \in 1..Len(chunks) |-> Hash(chunks[i])]),
                      keep)

\* store with `data.len() >= CHUNK_SIZE` as its test: a payload of exactly
\* CHUNK_SIZE bytes is chunked too.
StoreDataChunkAtLimit(objs, data, failAt, keep) ==
    IF Len(data) >= CHUNK_SIZE
    THEN LET chunks == ChunkFile(data)
             c == StoreChunks(objs, chunks, 1, failAt, keep)
         IN  IF c.ok
             THEN CreateManifest(c.objs, chunks,
                                 IF failAt = Len(chunks) + 1 THEN keep ELSE -1)
             ELSE [objs |-> c.objs, ok |-> FALSE, hash |-> ""]
    ELSE StoreSingleObject(objs, data, IF failAt = 1 THEN keep ELSE -1)

\* StorageManager::store
StoreData(objs, data, failAt, keep) ==
    IF Len(data) > CHUNK_SIZE
    THEN LET chunks == ChunkFile(data)
             c == StoreChunks(objs, chunks, 1, failAt, keep)
         IN  IF c.ok
             THEN CreateManifest(c.objs, chunks,
                                 IF failAt = Len(chunks) + 1 THEN keep ELSE -1)
             ELSE [objs |-> c.objs, ok |-> FALSE, hash |-> ""]
    ELSE StoreSingleObject(objs, data, IF failAt = 1 THEN keep ELSE -1)

\* Number of object writes store(data) may perform.
NumWrites(data) ==
    IF Len(data) > CHUNK_SIZE THEN Len(ChunkFile(data)) + 1 ELSE 1

(***************************************************************************)
(* DatabaseManager (db.sqlite)                                             *)
(***************************************************************************)
DefaultRef == "ref: refs/heads/main"

\* Paths in the order SQLite's ORDER BY file_path returns them.
PathOrder == <<"a.bin", "b.bin", "file_0", "file_1">>

Some(h) == [some |-> TRUE, hash |-> h]
None == [some |-> FALSE, hash |-> ""]

\* message.trim().is_empty()
IsBlank(message) == message \in {"", " "}

\* INSERT INTO staging, without the OR REPLACE conflict clause and without the
\* primary key on file_path.
AddToStagingInsertOnly(stg, path, hash, size) ==
    stg \cup {[file_path |-> path, file_hash |-> hash, file_size |-> size]}

\* DatabaseManager::add_to_staging: INSERT OR REPLACE INTO staging; file_path
\* is the primary key, the row of the same path is deleted first.
AddToStaging(stg, path, hash, size) ==
    {r \in stg : r.file_path # path}
        \cup {[file_path |-> path, file_hash |-> hash, file_size |-> size]}

\* The rows of a set in some order.
RECURSIVE SeqOf(_)
SeqOf(rows) ==
    IF rows = {} THEN <<>>
    ELSE LET r == CHOOSE x \in rows : TRUE IN <<r>> \o SeqOf(rows \ {r})

\* ORDER BY file_path
RECURSIVE RowsInOrder(_, _)
RowsInOrder(rows, i) ==
    IF i > Len(PathOrder) THEN <<>>
    ELSE SeqOf({r \in rows : r.file_path = PathOrder[i]}) \o RowsInOrder(rows, i + 1)

\* DatabaseManager::get_staged_files: SELECT ... FROM staging ORDER BY file_path
GetStagedFiles(stg) ==
    LET rs == RowsInOrder(stg, 1)
    IN  [i \in 1..Len(rs) |-> <<rs[i].file_path, rs[i].file_hash, rs[i].file_size>>]

\* DatabaseManager::clear_staging: DELETE FROM staging
ClearStaging == {}

\* The parent loop of create_commit without the foreign key on parent_hash.
RECURSIVE InsertParentsNoForeignKey(_, _, _, _, _)
InsertParentsNoForeignKey(db, hash, parents, i, failAt) ==
    IF i > Len(parents) THEN [db |-> db, ok |-> TRUE]
    ELSE IF i = failAt
    THEN [db |-> db, ok |-> FALSE]
    ELSE InsertParentsNoForeignKey(
            [db EXCEPT !.commit_parents = @ \cup
                {[commit_hash |-> hash, parent_hash |-> parents[i], parent_order |-> i - 1]}],
            hash, parents, i + 1, failAt)

\* The parent loop of create_commit.  commit_parents.parent_hash REFERENCES
\* commits(hash) with foreign_keys = ON: the insert of a parent that is no
\* stored commit fails, and create_commit returns the error.  failAt is the
\* index of the insert that fails with an SQLite error (0: none).
RECURSIVE InsertParents(_, _, _, _, _)
InsertParents(db, hash, parents, i, failAt) ==
    IF i > Len(parents) THEN [db |-> db, ok |-> TRUE]
    ELSE IF parents[i] \notin DOMAIN db.commits \/ i = failAt
    THEN [db |-> db, ok |-> FALSE]
    ELSE InsertParents(
            [db EXCEPT !.commit_parents = @ \cup
                {[commit_hash |-> hash, parent_hash |-> parents[i], parent_order |-> i - 1]}],
            hash, parents, i + 1, failAt)

\* The file loop of create_commit.  PRIMARY KEY (commit_hash, file_path): a
\* second row for the same path fails, and the loop continues.  failAt is the
\* index of the insert that fails with an SQLite error (0: none).
RECURSIVE InsertFiles(_, _, _, _, _)
InsertFiles(db, hash, files, i, failAt) ==
    IF i > Len(files) THEN db
    ELSE IF \/ \E r \in db.commit_files : r.commit_hash = hash /\ r.file_path = files[i][1]
            \/ i = failAt
    THEN InsertFiles(db, hash, files, i + 1, failAt)
    ELSE InsertFiles(
            [db EXCEPT !.commit_files = @ \cup
                {[commit_hash |-> hash, file_path |-> files[i][1],
                  file_hash |-> files[i][2], file_size |-> files[i][3]]}],
            hash, files, i + 1, failAt)

\* create_commit that rewrites the commits table: the rows stored before
\* are deleted when the new row is inserted.
CreateCommitTruncating(db, hash, message, parents, files, is_merge, ts, fault) ==
    IF hash = "" \/ IsBlank(message)
    THEN [db |-> db, ok |-> FALSE, inserted |-> FALSE]
    ELSE IF hash \in DOMAIN db.commits
    THEN [db |-> db, ok |-> TRUE, inserted |-> FALSE]
    ELSE LET row == [message |-> message, timestamp |-> ts, is_merge |-> is_merge]
             db1 == [db EXCEPT !.commits = [h \in {hash} |-> row]]
             p == InsertParents(db1, hash, parents, 1, IF fault = "parent" THEN 1 ELSE 0)
         IN  IF p.ok
             THEN [db |-> InsertFiles(p.db, hash, files, 1, IF fault = "file" THEN 1 ELSE 0),
                   ok |-> TRUE, inserted |-> TRUE]
             ELSE [db |-> p.db, ok |-> FALSE, inserted |-> TRUE]

\* DatabaseManager::create_commit; ts is Utc::now().timestamp_millis().
\* inserted: the call passed validation and the existence test.  fault names
\* the insert that fails with an SQLite error: "parent" the first parent row,
\* "file" the first file row, anything else none.
CreateCommit(db, hash, message, parents, files, is_merge, ts, fault) ==
    IF hash = "" \/ IsBlank(message)
    THEN [db |-> db, ok |-> FALSE, inserted |-> FALSE]
    ELSE IF hash \in DOMAIN db.commits
    THEN [db |-> db, ok |-> TRUE, inserted |-> FALSE]
    ELSE LET row == [message |-> message, timestamp |-> ts, is_merge |-> is_merge]
             db1 == [db EXCEPT !.commits =
                        [h \in DOMAIN db.commits \cup {hash} |->
                            IF h = hash THEN row ELSE db.commits[h]]]
             p == InsertParents(db1, hash, parents, 1, IF fault = "parent" THEN 1 ELSE 0)
         IN  IF p.ok
             THEN [db |-> InsertFiles(p.db, hash, files, 1, IF fault = "file" THEN 1 ELSE 0),
                   ok |-> TRUE, inserted |-> TRUE]
             ELSE [db |-> p.db, ok |-> FALSE, inserted |-> TRUE]

\* The orders in which ORDER BY timestamp DESC may return the commits.
LogOrders(cs) ==
    {o \in [1..Cardinality(DOMAIN cs) -> DOMAIN cs] :
        /\ \A i, j \in DOMAIN o : i # j => o[i] # o[j]
        /\ \A i, j \in DOMAIN o : i < j => cs[o[i]].timestamp >= cs[o[j]].timestamp}

\* DatabaseManager::get_commit_files: ... WHERE commit_hash = ?1 ORDER BY file_path
GetCommitFiles(cfiles, hash) ==
    LET ps == SelectSeq(PathOrder,
                        LAMBDA q : \E r \in cfiles : r.commit_hash = hash /\ r.file_path = q)
        Row(q) == CHOOSE r \in cfiles : r.commit_hash = hash /\ r.file_path = q
    IN  [i \in 1..Len(ps) |-> <<ps[i], Row(ps[i]).file_hash, Row(ps[i]).file_size>>]

\* SELECT parent_hash FROM commit_parents WHERE commit_hash = ?1 ORDER BY parent_order
GetParents(cparents, hash) ==
    LET rows == {r \in cparents : r.commit_hash = hash}
    IN  [i \in 1..Cardinality(rows) |->
            (CHOOSE r \in rows : r.parent_order = i - 1).parent_hash]

(***************************************************************************)
(* FaiProtocol (src/lib.rs)                                                *)
(***************************************************************************)
\* The HEAD file does not exist.
NoFile == "no file"

\* FaiProtocol::get_head
GetHead(head) ==
    IF head = NoFile \/ head = DefaultRef THEN None ELSE Some(head)

\* format!("{}{}{:?}", Utc::now().timestamp_millis(), message, staged_files),
\* hashed with BLAKE3
CommitHash(ts, message, staged_files) ==
    Hash(ToString(ts) \o message \o ToString(staged_files))

\* staged_files.is_empty() replaced by false.
NothingToCommitNever(staged_files) == FALSE

\* staged_files.is_empty(), the test of commit before it does anything
NothingToCommit(staged_files) == staged_files = <<>>

\* The message of the error commit returns on an empty staging area.
EmptyError == "Nothing to commit"

\* FaiProtocol::commit.  fault names the step that fails with an I/O error:
\* "parent" and "file" an insert of create_commit, "head" the write of the
\* HEAD file, "clear" clear_staging, "none" no step.
FaiCommitNoClear(r, message, ts, fault) ==
    LET staged_files == GetStagedFiles(r.staging)
        parent_hash == GetHead(r.HEAD)
        commit_hash == CommitHash(ts, message, staged_files)
        parents == IF parent_hash.some THEN <<parent_hash.hash>> ELSE <<>>
        c == CreateCommit(r.db, commit_hash, message, parents, staged_files, FALSE, ts, fault)
        failed == [r EXCEPT !.ok = FALSE, !.res = ""]
    IN  IF NothingToCommit(staged_files) THEN [failed EXCEPT !.res = EmptyError]
        ELSE IF ~c.ok
        THEN [failed EXCEPT !.db = c.db, !.inserted = c.inserted, !.hash = commit_hash]
        ELSE IF fault = "head"
        THEN [failed EXCEPT !.db = c.db, !.inserted = c.inserted, !.hash = commit_hash]
        ELSE [r EXCEPT !.db = c.db, !.inserted = c.inserted, !.hash = commit_hash,
                       !.HEAD = commit_hash, !.ok = TRUE, !.res = commit_hash]

\* commit that passes no parents to create_commit, whatever HEAD holds.
FaiCommitNoParents(r, message, ts, fault) ==
    LET staged_files == GetStagedFiles(r.staging)
        commit_hash == CommitHash(ts, message, staged_files)
        c == CreateCommit(r.db, commit_hash, message, <<>>, staged_files, FALSE, ts, fault)
        failed == [r EXCEPT !.ok = FALSE, !.res = ""]
    IN  IF NothingToCommit(staged_files) THEN [failed EXCEPT !.res = EmptyError]
        ELSE IF ~c.ok
        THEN [failed EXCEPT !.db = c.db, !.inserted = c.inserted, !.hash = commit_hash]
        ELSE IF fault = "head"
        THEN [failed EXCEPT !.db = c.db, !.inserted = c.inserted, !.hash = commit_hash]
        ELSE IF fault = "clear"
        THEN [failed EXCEPT !.db = c.db, !.inserted = c.inserted, !.hash = commit_hash,
                            !.HEAD = commit_hash]
        ELSE [r EXCEPT !.db = c.db, !.inserted = c.inserted, !.hash = commit_hash,
                       !.HEAD = commit_hash, !.staging = ClearStaging,
                       !.ok = TRUE, !.res = commit_hash]

FaiCommit(r, message, ts, fault) ==
    LET staged_files == GetStagedFiles(r.staging)
        parent_hash == GetHead(r.HEAD)
        commit_hash == CommitHash(ts, message, staged_files)
        parents == IF parent_hash.some THEN <<parent_hash.hash>> ELSE <<>>
        c == CreateCommit(r.db, commit_hash, message, parents, staged_files, FALSE, ts, fault)
        failed == [r EXCEPT !.ok = FALSE, !.res = ""]
    IN  IF NothingToCommit(staged_files) THEN [failed EXCEPT !.res = EmptyError]
        ELSE IF ~c.ok
        THEN [failed EXCEPT !.db = c.db, !.inserted = c.inserted, !.hash = commit_hash]
        ELSE IF fault = "head"
        THEN [failed EXCEPT !.db = c.db, !.inserted = c.inserted, !.hash = commit_hash]
        ELSE IF fault = "clear"
        THEN [failed EXCEPT !.db = c.db, !.inserted = c.inserted, !.hash = commit_hash,
                            !.HEAD = commit_hash]
        ELSE [r EXCEPT !.db = c.db, !.inserted = c.inserted, !.hash = commit_hash,
                       !.HEAD = commit_hash, !.staging = ClearStaging,
                       !.ok = TRUE, !.res = commit_hash]

(***************************************************************************)
(* Pull: NetworkManager::request_commits, the Pull command of src/main.rs  *)
(* and StorageManager::save_remote_commit (metadata.db)                    *)
(***************************************************************************)
NoData == [some |-> FALSE, data |-> <<>>]
SomeData(data) == [some |-> TRUE, data |-> data]

\* commit.file_hashes.iter().enumerate().map(|(i, hash)| (format!("file_{}", i), hash, 0))
SyntheticFiles(file_hashes) ==
    [i \in 1..Len(file_hashes) |-> <<"file_" \o ToString(i - 1), file_hashes[i], 0>>]

\* The loop of request_commits over a received response: create_commit for
\* each commit, a failure only logged.  h.put is the history of insertions.
RECURSIVE StoreReceivedCommits(_, _, _, _)
StoreReceivedCommits(h, received, i, ts) ==
    IF i > Len(received) THEN h
    ELSE LET c == received[i]
             files == SyntheticFiles(c.file_hashes)
             r == CreateCommit(h.db, c.hash, c.message, <<>>, files, FALSE, ts, "none")
         IN  StoreReceivedCommits(
                [db |-> r.db,
                 put |-> IF r.inserted
                         THEN [x \in DOMAIN h.put \cup {c.hash} |->
                                 IF x = c.hash
                                 THEN [origin |-> "pull", parents |-> <<>>, files |-> files]
                                 ELSE h.put[x]]
                         ELSE h.put],
                received, i + 1, ts)

\* StorageManager::save_remote_commit: one transaction of INSERT OR IGNORE
\* into commits and, for each file hash, INSERT OR IGNORE into commit_files.
SaveRemoteCommit(meta, commit) ==
    [commits |->
        IF commit.hash \in DOMAIN meta.commits THEN meta.commits
        ELSE [x \in DOMAIN meta.commits \cup {commit.hash} |->
                IF x = commit.hash
                THEN [message |-> commit.message, timestamp |-> commit.timestamp]
                ELSE meta.commits[x]],
     files |-> meta.files \cup
        {[commit_hash |-> commit.hash, file_hash |-> commit.file_hashes[i]] :
            i \in 1..Len(commit.file_hashes)}]

\* The file loop of the Pull command for one commit: a file that retrieve()
\* finds is skipped, a payload the peer returned is stored, no payload is
\* skipped.  answers[file_hash] is what request_chunk returned.
RECURSIVE PullFiles(_, _, _, _)
PullFiles(objs, file_hashes, i, answers) ==
    IF i > Len(file_hashes) THEN [objs |-> objs, ok |-> TRUE]
    ELSE IF Retrieve(objs, file_hashes[i]).ok
    THEN PullFiles(objs, file_hashes, i + 1, answers)
    ELSE IF answers[file_hashes[i]].some
    THEN LET r == StoreData(objs, answers[file_hashes[i]].data, 0, 0)
         IN  IF r.ok THEN PullFiles(r.objs, file_hashes, i + 1, answers)
             ELSE [objs |-> r.objs, ok |-> FALSE]
    ELSE PullFiles(objs, file_hashes, i + 1, answers)

\* A pull that moves HEAD to the first commit it received.
HeadAfterPullMoved(head, received) ==
    IF received # <<>> THEN received[1].hash ELSE head

\* The content of the HEAD file after the Pull command: the command and
\* request_commits never write the file.
HeadAfterPull(head, received) == head

\* The commit loop of the Pull command.
RECURSIVE PullCommits(_, _, _, _)
PullCommits(st, received, i, answers) ==
    IF i > Len(received) THEN st
    ELSE LET f == PullFiles(st.objs, received[i].file_hashes, 1, answers)
         IN  IF f.ok
             THEN PullCommits([objs |-> f.objs,
                               meta |-> SaveRemoteCommit(st.meta, received[i]),
                               ok |-> TRUE],
                              received, i + 1, answers)
             ELSE [st EXCEPT !.objs = f.objs, !.ok = FALSE]

(***************************************************************************)
(* Inputs of the object store                                              *)
(***************************************************************************)
\* Payloads handed to store(): every length class around CHUNK_SIZE, and
\* small payloads whose first non-whitespace byte is '{'.
Inputs ==
    {Fill(A, n) : n \in {0, CHUNK_SIZE - 1, CHUNK_SIZE, CHUNK_SIZE + 1,
                         2 * CHUNK_SIZE + 1}}
    \cup {<<LB>>, <<WS, LB>>, <<LB, XFF>>, <<LB, "0", RB>>,
          <<LB, ToString(CHUNK_SIZE - 1), Hash(Fill(A, CHUNK_SIZE - 1)), RB>>, Fill(LB, CHUNK_SIZE + 1)}

\* Digests handed to retrieve(): every stored one, every returned one, and
\* strings that are not stored.
Digests ==
    DOMAIN objects \cup {p[2] : p \in returned} \cup {"", "a", Hash(<<A, A>>)}

\* Number of bytes a failed object write leaves behind: none, or all but the
\* last of a full chunk.
Keeps == {0, CHUNK_SIZE - 1}

\* Objects left behind by a failed write.
Corrupt(objs) == {d \in DOMAIN objs : Hash(objs[d]) # d}

NoOp == [op |-> "init", arg |-> <<>>, ok |-> TRUE, res |-> <<>>, again |-> FALSE]

InitStore ==
    /\ objects = <<>>
    /\ returned = {}
    /\ last = NoOp
    /\ ops = 0

InitRepo ==
    /\ staging = {}
    /\ commits = <<>>
    /\ commit_parents = {}
    /\ commit_files = {}
    /\ HEAD = DefaultRef
    /\ now = 0
    /\ put = <<>>
    /\ mcommits = <<>>
    /\ mcommit_files = {}

\* No request was sent yet.
InitNet ==
    net = [next_id |-> 0, pending |-> <<>>, inbox |-> <<>>, wire |-> {},
           handled |-> <<>>, sent |-> <<>>,
           inbound |-> <<>>, outbox |-> <<>>, table |-> <<>>,
           discovered |-> <<>>, live |-> {}]

Init == InitStore /\ InitRepo /\ InitNet

(***************************************************************************)
(* Object store operations                                                 *)
(***************************************************************************)
\* StorageManager::store(data); called by add_file, and by pull and clone for
\* every payload they download.
Store(data) ==
    /\ ops < MaxOps
    /\ \E failAt \in 0..NumWrites(data), keep \in Keeps :
          LET r == StoreData(objects, data, failAt, keep)
          IN  /\ failAt > 0 => Cardinality(Corrupt(objects)) < MaxFaults
              /\ objects' = r.objs
              /\ returned' = IF r.ok THEN returned \cup {<<data, r.hash>>} ELSE returned
              /\ last' = [op |-> "store", arg |-> data, ok |-> r.ok,
                          res |-> r.hash,
                          again |-> \E p \in returned : p[1] = data]
    /\ ops' = ops + 1
    /\ UNCHANGED <<repoVars, metaVars, net>>

\* StorageManager::retrieve(hash)
RetrieveObject(hash) ==
    /\ ops < MaxOps
    /\ LET r == Retrieve(objects, hash)
       IN  last' = [op |-> "retrieve", arg |-> hash, ok |-> r.ok, res |-> r.data,
                    again |-> FALSE]
    /\ ops' = ops + 1
    /\ UNCHANGED <<storeVars, repoVars, metaVars, net>>

NextStore ==
    \/ \E data \in Inputs : Store(data)
    \/ \E hash \in Digests : RetrieveObject(hash)

SpecStore == Init /\ [][NextStore]_vars

(***************************************************************************)
(* Inputs of the repository                                                *)
(***************************************************************************)
Paths == {"a.bin", "b.bin"}
LocalFiles == {Fill(A, CHUNK_SIZE - 1)}
Messages == {"m", " "}
CommitFaults == {"none", "parent", "file", "head", "clear"}

\* The digest store() returns for a payload.
DigestOf(data) == StoreData(<<>>, data, 0, 0).hash

\* A commit of a peer, as its commit responder sends it; without its file
\* hashes when the responder's get_commit_files failed (it then sends vec![]).
RemoteFile == Fill(A, CHUNK_SIZE + 1)
RemoteStaged == <<<<"a.bin", DigestOf(RemoteFile), Len(RemoteFile)>>>>
RemoteCommit ==
    [hash |-> CommitHash(0, "r", RemoteStaged), message |-> "r", timestamp |-> 0,
     file_hashes |-> <<DigestOf(RemoteFile)>>]
RemoteCommitNoFiles == [RemoteCommit EXCEPT !.file_hashes = <<>>]
CommitResponses == {<<>>, <<RemoteCommit>>, <<RemoteCommitNoFiles>>}
ChunkAnswers == {NoData, SomeData(RemoteFile)}

RequestedHashes(received) ==
    UNION {{received[i].file_hashes[j] : j \in 1..Len(received[i].file_hashes)} :
            i \in 1..Len(received)}

Db == [commits |-> commits, commit_parents |-> commit_parents, commit_files |-> commit_files]
Meta == [commits |-> mcommits, files |-> mcommit_files]

(***************************************************************************)
(* Repository operations                                                   *)
(***************************************************************************)
\* add_file that records the staging entry before it stores the blob, and
\* keeps the entry when the store fails.
AddFileStageFirst(path, present, content) ==
    /\ ops < MaxRepoOps
    /\ ops' = ops + 1
    /\ UNCHANGED <<commits, commit_parents, commit_files, HEAD, now, put, metaVars, net>>
    /\ IF ~present
       THEN /\ last' = [op |-> "add", arg |-> path, ok |-> FALSE, res |-> "", again |-> FALSE]
            /\ UNCHANGED <<objects, returned, staging>>
       ELSE \E failAt \in 0..1 :
              LET r == StoreData(objects, content, failAt, 0)
              IN  /\ failAt > 0 => Cardinality(Corrupt(objects)) < MaxFaults
                  /\ objects' = r.objs
                  /\ returned' = IF r.ok THEN returned \cup {<<content, r.hash>>}
                                          ELSE returned
                  /\ staging' = AddToStaging(staging, path, Hash(content), Len(content))
                  /\ last' = [op |-> "add", arg |-> path, ok |-> r.ok,
                              res |-> r.hash, again |-> FALSE]

\* FaiProtocol::add_file(file_path); `present`: the file exists, `content`
\* its bytes.
AddFile(path, present, content) ==
    /\ ops < MaxRepoOps
    /\ ops' = ops + 1
    /\ UNCHANGED <<commits, commit_parents, commit_files, HEAD, now, put, metaVars, net>>
    /\ IF ~present
       THEN /\ last' = [op |-> "add", arg |-> path, ok |-> FALSE, res |-> "", again |-> FALSE]
            /\ UNCHANGED <<objects, returned, staging>>
       ELSE \E failAt \in 0..1 :
              LET r == StoreData(objects, content, failAt, 0)
              IN  /\ failAt > 0 => Cardinality(Corrupt(objects)) < MaxFaults
                  /\ objects' = r.objs
                  /\ returned' = IF r.ok THEN returned \cup {<<content, r.hash>>}
                                          ELSE returned
                  /\ staging' = IF r.ok
                                 THEN AddToStaging(staging, path, r.hash, Len(content))
                                 ELSE staging
                  /\ last' = [op |-> "add", arg |-> path, ok |-> r.ok,
                              res |-> r.hash, again |-> FALSE]

\* FaiProtocol::commit(message)
Commit(message, fault) ==
    /\ ops < MaxRepoOps
    /\ ops' = ops + 1
    /\ LET r == FaiCommit([staging |-> staging, db |-> Db, HEAD |-> HEAD, ok |-> TRUE,
                           res |-> "", inserted |-> FALSE, hash |-> ""],
                          message, now, fault)
       IN  /\ staging' = r.staging
           /\ commits' = r.db.commits
           /\ commit_parents' = r.db.commit_parents
           /\ commit_files' = r.db.commit_files
           /\ HEAD' = r.HEAD
           /\ put' = IF r.inserted
                      THEN [x \in DOMAIN put \cup {r.hash} |->
                              IF x = r.hash
                              THEN [origin |-> "commit",
                                    parents |-> IF GetHead(HEAD).some
                                                THEN <<GetHead(HEAD).hash>> ELSE <<>>,
                                    files |-> GetStagedFiles(staging)]
                              ELSE put[x]]
                      ELSE put
           /\ last' = [op |-> "commit", arg |-> message, ok |-> r.ok, res |-> r.res,
                       again |-> r.hash \in DOMAIN commits]
    /\ UNCHANGED <<objects, returned, now, metaVars, net>>

\* FaiProtocol::update_head(commit_hash)
UpdateHead(commit_hash) ==
    /\ ops < MaxRepoOps
    /\ ops' = ops + 1
    /\ HEAD' = commit_hash
    /\ last' = [op |-> "update_head", arg |-> commit_hash, ok |-> TRUE, res |-> "",
                again |-> FALSE]
    /\ UNCHANGED <<objects, returned, staging, commits, commit_parents, commit_files,
                   now, put, metaVars, net>>

\* The Pull command: request_commits (which stores what it received in
\* db.sqlite), then for each commit its files and save_remote_commit.
Pull(received, answers) ==
    /\ ops < MaxRepoOps
    /\ ops' = ops + 1
    /\ LET h == StoreReceivedCommits([db |-> Db, put |-> put], received, 1, now)
           st == PullCommits([objs |-> objects, meta |-> Meta, ok |-> TRUE],
                             received, 1, answers)
       IN  /\ commits' = h.db.commits
           /\ commit_parents' = h.db.commit_parents
           /\ commit_files' = h.db.commit_files
           /\ put' = h.put
           /\ objects' = st.objs
           /\ mcommits' = st.meta.commits
           /\ mcommit_files' = st.meta.files
           /\ last' = [op |-> "pull", arg |-> received, ok |-> st.ok, res |-> "",
                       again |-> \E i \in 1..Len(received) :
                                    received[i].hash \in DOMAIN mcommits]
    /\ HEAD' = HeadAfterPull(HEAD, received)
    /\ UNCHANGED <<returned, staging, now, net>>

\* The wall clock advances.
Tick ==
    /\ now < MaxTime
    /\ now' = now + 1
    /\ UNCHANGED <<objects, returned, last, ops, staging, commits, commit_parents,
                   commit_files, HEAD, put, metaVars, net>>

NextRepo ==
    \/ \E path \in Paths, present \in BOOLEAN, content \in LocalFiles :
            AddFile(path, present, content)
    \/ \E message \in Messages, fault \in CommitFaults : Commit(message, fault)
    \/ \E commit_hash \in DOMAIN commits \cup {"deadbeef"} : UpdateHead(commit_hash)
    \/ \E received \in CommitResponses :
            \E answers \in [RequestedHashes(received) -> ChunkAnswers] :
                Pull(received, answers)
    \/ Tick

SpecRepo == Init /\ [][NextRepo]_vars

(***************************************************************************)
(* Clone from a peer                                                       *)
(***************************************************************************)
\* The repository of the peer: RemoteCommit, then a second commit on top of
\* it that adds b.bin.
PeerFile == Fill(A, CHUNK_SIZE - 1)
PeerStaged == <<<<"b.bin", DigestOf(PeerFile), Len(PeerFile)>>>>
PeerCommit ==
    [hash |-> CommitHash(1, "r2", PeerStaged), message |-> "r2", timestamp |-> 1,
     file_hashes |-> <<DigestOf(PeerFile)>>]
PeerObjects == StoreData(StoreData(<<>>, RemoteFile, 0, 0).objs, PeerFile, 0, 0).objs

\* What the peer's commit responder sends for commit_hash = None: its
\* get_commit_history, newest first.
PeerLog == <<PeerCommit, RemoteCommit>>
PeerParents(hash) == IF hash = PeerCommit.hash THEN <<RemoteCommit.hash>> ELSE <<>>

\* The chunk responder of handle_swarm_event: storage.retrieve(&request.hash),
\* Some(data) on Ok and None on Err.
ChunkResponse(objs, hash) ==
    LET r == Retrieve(objs, hash) IN IF r.ok THEN SomeData(r.data) ELSE NoData

\* request_commits returns the peer's log, or nothing when it is not
\* connected or no response arrives in time.
CloneResponses == {<<>>, PeerLog}

\* request_chunk returns what the peer's responder sent, or None.
CloneAnswers(received) ==
    {f \in [RequestedHashes(received) ->
                {NoData} \cup {ChunkResponse(PeerObjects, x) : x \in RequestedHashes(received)}] :
        \A x \in RequestedHashes(received) : f[x] \in {NoData, ChunkResponse(PeerObjects, x)}}

\* The download loop of the Clone command over all_file_hashes.
RECURSIVE CloneFiles(_, _, _)
CloneFiles(objs, file_hashes, answers) ==
    IF file_hashes = {} THEN [objs |-> objs, ok |-> TRUE]
    ELSE LET fh == CHOOSE x \in file_hashes : TRUE
         IN  IF answers[fh].some
             THEN LET r == StoreData(objs, answers[fh].data, 0, 0)
                  IN  IF r.ok THEN CloneFiles(r.objs, file_hashes \ {fh}, answers)
                      ELSE [objs |-> r.objs, ok |-> FALSE]
             ELSE CloneFiles(objs, file_hashes \ {fh}, answers)

\* The import loop of the Clone command: save_remote_commit for each commit.
RECURSIVE ImportCommits(_, _, _)
ImportCommits(meta, received, i) ==
    IF i > Len(received) THEN meta
    ELSE ImportCommits(SaveRemoteCommit(meta, received[i]), received, i + 1)

\* The directory of the clone before the command: no repository.
InitClone ==
    /\ InitStore
    /\ staging = {}
    /\ commits = <<>>
    /\ commit_parents = {}
    /\ commit_files = {}
    /\ HEAD = NoFile
    /\ now = 0
    /\ put = <<>>
    /\ mcommits = <<>>
    /\ mcommit_files = {}
    /\ InitNet

\* The Clone command into a directory without a repository.
Clone(received, answers) ==
    /\ last.op = "init"
    /\ ops' = ops + 1
    /\ LET h == StoreReceivedCommits([db |-> Db, put |-> put], received, 1, now)
           f == CloneFiles(objects, RequestedHashes(received), answers)
       IN  /\ commits' = h.db.commits
           /\ commit_parents' = h.db.commit_parents
           /\ commit_files' = h.db.commit_files
           /\ put' = h.put
           /\ objects' = f.objs
           /\ mcommits' = IF f.ok THEN ImportCommits(Meta, received, 1).commits ELSE mcommits
           /\ mcommit_files' = IF f.ok THEN ImportCommits(Meta, received, 1).files
                                        ELSE mcommit_files
           /\ last' = [op |-> "clone", arg |-> received, ok |-> f.ok, res |-> "",
                       again |-> FALSE]
    /\ UNCHANGED <<returned, staging, HEAD, now, net>>

NextClone ==
    \/ \E received \in CloneResponses :
            \E answers \in CloneAnswers(received) : Clone(received, answers)
    \/ /\ last.op # "init"
       /\ \E received \in CommitResponses :
            \E answers \in [RequestedHashes(received) -> ChunkAnswers] :
                Pull(received, answers)
    \/ /\ last.op # "init"
       /\ \E hash \in DOMAIN objects : RetrieveObject(hash)
    \/ Tick

SpecClone == InitClone /\ [][NextClone]_vars

(***************************************************************************)
(* Request/response exchange with the peer (NetworkManager)                *)
(***************************************************************************)
\* Digests asked of the peer: two it has, one it lacks, one that is too short.
RequestedDigests == {DigestOf(RemoteFile), DigestOf(PeerFile), Hash(<<A, A>>), ""}

\* CommitRequest.commit_hash: None (the whole log), a commit of the peer, or
\* a digest of no commit.
NoCommitHash == "None"
RequestedCommits == {NoCommitHash, RemoteCommit.hash, "deadbeef"}

\* The chunk request handler that sends nothing when retrieve fails.
HandleChunkRequestDropMiss(objs, request) ==
    IF Retrieve(objs, request.hash).ok
    THEN <<[id |-> request.id, kind |-> "chunk", hash |-> request.hash,
            data |-> ChunkResponse(objs, request.hash), commits |-> <<>>]>>
    ELSE <<>>

\* The chunk request handler of handle_swarm_event: the responses it hands to
\* send_response for one request.
HandleChunkRequest(objs, request) ==
    <<[id |-> request.id, kind |-> "chunk", hash |-> request.hash,
       data |-> ChunkResponse(objs, request.hash), commits |-> <<>>]>>

\* The peer's db.sqlite: RemoteCommit, and PeerCommit on top of it.
EmptyDb == [commits |-> <<>>, commit_parents |-> {}, commit_files |-> {}]
PeerDb ==
    CreateCommit(
        CreateCommit(EmptyDb, RemoteCommit.hash, RemoteCommit.message, <<>>, RemoteStaged,
                     FALSE, RemoteCommit.timestamp, "none").db,
        PeerCommit.hash, PeerCommit.message, <<RemoteCommit.hash>>, PeerStaged,
        FALSE, PeerCommit.timestamp, "none").db

\* The storage::CommitInfo the commit responder builds for a stored commit:
\* file_hashes from get_commit_files, vec![] when that call fails.
ToCommitInfo(db, hash, files_ok) ==
    LET files == GetCommitFiles(db.commit_files, hash)
    IN  [hash |-> hash,
         message |-> db.commits[hash].message,
         timestamp |-> db.commits[hash].timestamp,
         file_hashes |-> IF files_ok THEN [i \in 1..Len(files) |-> files[i][2]] ELSE <<>>]

\* The commit request handler of handle_swarm_event: get_commit(hash) when
\* commit_hash is set, get_commit_history(None) otherwise.  files_ok: the
\* calls of get_commit_files succeed.
HandleCommitRequest(db, request, files_ok) ==
    LET history == CHOOSE o \in LogOrders(db.commits) : TRUE
    IN  <<[id |-> request.id, kind |-> "commit", hash |-> request.hash, data |-> NoData,
           commits |-> IF request.hash = NoCommitHash
                       THEN [i \in 1..Len(history) |-> ToCommitInfo(db, history[i], files_ok)]
                       ELSE IF request.hash \in DOMAIN db.commits
                       THEN <<ToCommitInfo(db, request.hash, files_ok)>>
                       ELSE <<>>]>>

\* request_chunk / request_commits up to send_request.  Not connected: the
\* call returns Ok(None) / Ok(vec![]) at once.
SendRequest(kind, hash, connected) ==
    /\ net.pending = <<>>
    /\ net.next_id < MaxRequests
    /\ IF connected
       THEN /\ net' = [net EXCEPT !.next_id = @ + 1,
                                  !.pending = <<[id |-> net.next_id, kind |-> kind, hash |-> hash]>>,
                                  !.inbox = Append(@, [id |-> net.next_id, kind |-> kind,
                                                       hash |-> hash])]
            /\ UNCHANGED last
       ELSE /\ net' = [net EXCEPT !.next_id = @ + 1]
            /\ last' = [op |-> "request_" \o kind, arg |-> hash, ok |-> TRUE, res |-> NoData,
                        again |-> FALSE, cause |-> "not connected"]
    /\ UNCHANGED <<storeVars, ops, repoVars, metaVars>>

\* The peer's handle_swarm_event for the next inbound request.
Respond ==
    /\ net.inbox # <<>>
    /\ \E files_ok \in BOOLEAN :
          LET request == Head(net.inbox)
              responses == IF request.kind = "chunk"
                           THEN HandleChunkRequest(PeerObjects, request)
                           ELSE HandleCommitRequest(PeerDb, request, files_ok)
          IN  /\ request.kind = "chunk" => files_ok
              /\ net' = [net EXCEPT !.inbox = Tail(@),
                                    !.handled = Append(@, request),
                                    !.sent = @ \o responses,
                                    !.wire = @ \cup {responses[i] : i \in 1..Len(responses)}]
    /\ UNCHANGED <<storeVars, last, ops, repoVars, metaVars>>

\* The wait loop that returns the next response of its kind, whatever request
\* ID the response carries.
DeliverAnyResponse ==
    /\ net.pending # <<>>
    /\ \E r \in net.wire :
          /\ r.kind = net.pending[1].kind
          /\ net' = [net EXCEPT !.pending = <<>>, !.wire = @ \ {r}]
          /\ IF r.kind = "chunk"
             THEN /\ last' = [op |-> "request_chunk", arg |-> net.pending[1].hash, ok |-> TRUE,
                              res |-> r.data, again |-> FALSE, cause |-> "response"]
                  /\ UNCHANGED <<commits, commit_parents, commit_files, put>>
             ELSE LET h == StoreReceivedCommits([db |-> Db, put |-> put], r.commits, 1, now)
                  IN  /\ commits' = h.db.commits
                      /\ commit_parents' = h.db.commit_parents
                      /\ commit_files' = h.db.commit_files
                      /\ put' = h.put
                      /\ last' = [op |-> "request_commit", arg |-> net.pending[1].hash,
                                  ok |-> TRUE, res |-> r.commits, again |-> FALSE,
                                  cause |-> "response"]
    /\ UNCHANGED <<storeVars, ops, staging, HEAD, now, metaVars>>

\* The response to the pending request arrives (response_id == request_id in
\* request_chunk, pending_commit_responses.get(&request_id) in
\* request_commits): request_chunk returns Ok(response.data); request_commits
\* stores the commits and returns them.
Deliver ==
    /\ net.pending # <<>>
    /\ \E r \in net.wire :
          /\ r.id = net.pending[1].id
          /\ net' = [net EXCEPT !.pending = <<>>, !.wire = @ \ {r}]
          /\ IF r.kind = "chunk"
             THEN /\ last' = [op |-> "request_chunk", arg |-> r.hash, ok |-> TRUE,
                              res |-> r.data, again |-> FALSE, cause |-> "response"]
                  /\ UNCHANGED <<commits, commit_parents, commit_files, put>>
             ELSE LET h == StoreReceivedCommits([db |-> Db, put |-> put], r.commits, 1, now)
                  IN  /\ commits' = h.db.commits
                      /\ commit_parents' = h.db.commit_parents
                      /\ commit_files' = h.db.commit_files
                      /\ put' = h.put
                      /\ last' = [op |-> "request_commit", arg |-> r.hash, ok |-> TRUE,
                                  res |-> r.commits, again |-> FALSE, cause |-> "response"]
    /\ UNCHANGED <<storeVars, ops, staging, HEAD, now, metaVars>>

\* A response is lost on the way, or arrives when no call waits for it.
LoseResponse ==
    /\ \E r \in net.wire : net' = [net EXCEPT !.wire = @ \ {r}]
    /\ UNCHANGED <<storeVars, last, ops, repoVars, metaVars>>

\* The 10 s wait of request_chunk / request_commits ends without a response:
\* the call returns Ok(None) / Ok(vec![]).  request_commits tests its deadline
\* after every poll_events; request_chunk tests it when swarm.next() has
\* yielded an event that is not its response, so for a chunk request this
\* step is the arrival of such an event after the deadline.
Timeout ==
    /\ net.pending # <<>>
    /\ net' = [net EXCEPT !.pending = <<>>]
    /\ last' = [op |-> "request_" \o net.pending[1].kind, arg |-> net.pending[1].hash,
                ok |-> TRUE, res |-> NoData, again |-> FALSE, cause |-> "timeout"]
    /\ UNCHANGED <<storeVars, ops, repoVars, metaVars>>

\* request_chunk sees OutboundFailure for its request: it returns Ok(None).
OutboundFailure ==
    /\ net.pending # <<>>
    /\ net.pending[1].kind = "chunk"
    /\ net' = [net EXCEPT !.pending = <<>>]
    /\ last' = [op |-> "request_chunk", arg |-> net.pending[1].hash,
                ok |-> TRUE, res |-> NoData, again |-> FALSE, cause |-> "outbound failure"]
    /\ UNCHANGED <<storeVars, ops, repoVars, metaVars>>

NextNet ==
    \/ \E hash \in RequestedDigests, connected \in BOOLEAN :
            SendRequest("chunk", hash, connected)
    \/ \E hash \in RequestedCommits, connected \in BOOLEAN :
            SendRequest("commit", hash, connected)
    \/ Respond
    \/ Deliver
    \/ LoseResponse
    \/ Timeout
    \/ OutboundFailure
    \/ Tick

SpecNet == Init /\ [][NextNet]_vars

\* The deadline of request_commits: poll_events bounds its wait for an event
\* by tokio::time::timeout(100 ms), so the loop reaches its deadline test
\* whether or not the network delivers anything.
CommitsDeadline ==
    /\ net.pending # <<>>
    /\ net.pending[1].kind = "commit"
    /\ Timeout

\* The exchange under the scheduling the code provides: the deadline of
\* request_commits is always noticed.  request_chunk awaits swarm.next()
\* without a bound, so no step of a chunk request is taken unless the network
\* delivers an event.
SpecNetLive == Init /\ [][NextNet]_vars /\ WF_net(CommitsDeadline)

(***************************************************************************)
(* Events this node handles while it awaits a response                     *)
(* net.inbound: the requests of the peer that arrived, net.outbox: the     *)
(* responses handed to send_response, net.table: pending_commit_responses  *)
(***************************************************************************)
\* handle_swarm_event that has no arm for inbound requests.
HandleSwarmEventResponsesOnly(n, objs, db, event, files_ok) ==
    IF event.type = "response" /\ event.kind = "commit"
    THEN [n EXCEPT !.table = [x \in DOMAIN n.table \cup {event.id} |->
                                IF x = event.id THEN event.commits ELSE n.table[x]]]
    ELSE n

\* NetworkManager::handle_swarm_event for a request/response message: an
\* inbound request is answered through send_response, a commit response is
\* inserted into pending_commit_responses under its request ID, a chunk
\* response is only printed.
HandleSwarmEvent(n, objs, db, event, files_ok) ==
    IF event.type = "request"
    THEN LET request == [id |-> event.id, kind |-> event.kind, hash |-> event.hash]
         IN  [n EXCEPT !.outbox = @ \o
                (IF event.kind = "chunk"
                 THEN HandleChunkRequest(objs, request)
                 ELSE HandleCommitRequest(db, request, files_ok))]
    ELSE IF event.kind = "commit"
    THEN [n EXCEPT !.table = [x \in DOMAIN n.table \cup {event.id} |->
                                IF x = event.id THEN event.commits ELSE n.table[x]]]
    ELSE n

\* One iteration of the wait loop of request_chunk for an event that is not
\* the awaited response: the first arm takes every chunk response and drops
\* the one whose ID differs, the last arm hands the event to
\* handle_swarm_event.
RequestChunkLoop(n, objs, db, event, files_ok) ==
    IF event.type = "response" /\ event.kind = "chunk"
    THEN n
    ELSE HandleSwarmEvent(n, objs, db, event, files_ok)

\* One iteration of the wait loop of the call in progress; the loop of
\* request_commits hands every event to handle_swarm_event through
\* poll_events.
WaitLoopEvent(n, objs, db, event, files_ok) ==
    IF n.pending[1].kind = "chunk"
    THEN RequestChunkLoop(n, objs, db, event, files_ok)
    ELSE HandleSwarmEvent(n, objs, db, event, files_ok)

\* A request of the peer arrives while this node awaits a response.
InboundRequest(kind, hash, files_ok) ==
    /\ net.pending # <<>>
    /\ Len(net.inbound) < MaxInbound
    /\ kind = "chunk" => files_ok
    /\ LET event == [type |-> "request", id |-> Len(net.inbound), kind |-> kind,
                     hash |-> hash]
           n == WaitLoopEvent(net, objects, Db, event, files_ok)
       IN  net' = [n EXCEPT !.inbound = Append(@, [id |-> event.id, kind |-> kind,
                                                   hash |-> hash,
                                                   awaiting |-> net.pending[1].kind])]
    /\ UNCHANGED <<storeVars, last, ops, repoVars, metaVars>>

\* The response to an earlier request arrives while this node awaits the
\* response to another one.
LateResponse ==
    /\ net.pending # <<>>
    /\ \E r \in net.wire :
          /\ r.id # net.pending[1].id
          /\ LET event == [type |-> "response", id |-> r.id, kind |-> r.kind,
                           hash |-> r.hash, commits |-> r.commits]
                 n == WaitLoopEvent(net, objects, Db, event, TRUE)
             IN  net' = [n EXCEPT !.wire = @ \ {r}]
    /\ UNCHANGED <<storeVars, last, ops, repoVars, metaVars>>

NextNode ==
    \/ SendRequest("chunk", DigestOf(RemoteFile), TRUE)
    \/ SendRequest("commit", NoCommitHash, TRUE)
    \/ Respond
    \/ Deliver
    \/ Timeout
    \/ OutboundFailure
    \/ \E files_ok \in BOOLEAN :
            \/ InboundRequest("chunk", DigestOf(RemoteFile), files_ok)
            \/ InboundRequest("commit", NoCommitHash, files_ok)
    \/ LateResponse

SpecNode == Init /\ [][NextNode]_vars

(***************************************************************************)
(* Peer discovery (mDNS events of handle_swarm_event)                      *)
(* net.discovered: discovered_peers, peer -> [addresses, last_seen];       *)
(* net.live: the <<peer, address>> records mDNS announced and has not      *)
(* expired                                                                 *)
(***************************************************************************)
PeerIds == {"p1", "p2"}
Addrs == {"/ip4/127.0.0.1/tcp/1", "/ip4/10.0.0.1/tcp/1"}

\* mdns::Event::Discovered for one (peer_id, addr): entry(peer_id)
\* .or_insert_with(...), the address pushed when the entry lacks it, last_seen
\* set to the current time.
DiscoveredPeer(peers, peer_id, addr, ts) ==
    LET old == IF peer_id \in DOMAIN peers THEN peers[peer_id].addresses ELSE <<>>
        addresses == IF \E i \in 1..Len(old) : old[i] = addr THEN old ELSE Append(old, addr)
    IN  [p \in DOMAIN peers \cup {peer_id} |->
            IF p = peer_id THEN [addresses |-> addresses, last_seen |-> ts] ELSE peers[p]]

\* mdns::Event::Expired for one (peer_id, _addr): discovered_peers.remove(&peer_id)
ExpiredPeer(peers, peer_id) ==
    [p \in DOMAIN peers \ {peer_id} |-> peers[p]]

\* mDNS announces an address of a peer.  The handler dials the address; a
\* failed dial is only printed.
Discovered(peer_id, addr, dial_ok) ==
    /\ net' = [net EXCEPT !.discovered = DiscoveredPeer(@, peer_id, addr, now),
                          !.live = @ \cup {<<peer_id, addr>>}]
    /\ last' = [op |-> "discovered", arg |-> <<peer_id, addr>>, ok |-> dial_ok, res |-> "",
                again |-> <<peer_id, addr>> \in net.live]
    /\ UNCHANGED <<storeVars, ops, repoVars, metaVars>>

\* The record of one address of a peer reaches its TTL.
Expired(peer_id, addr) ==
    /\ <<peer_id, addr>> \in net.live
    /\ net' = [net EXCEPT !.discovered = ExpiredPeer(@, peer_id),
                          !.live = @ \ {<<peer_id, addr>>}]
    /\ last' = [op |-> "expired", arg |-> <<peer_id, addr>>, ok |-> TRUE, res |-> "",
                again |-> FALSE]
    /\ UNCHANGED <<storeVars, ops, repoVars, metaVars>>

\* The dial loop of request_chunk for a peer that is not connected: the
\* addresses of its entry are cloned and dialled, a failure is printed.
Dial(peer_id, dial_ok) ==
    /\ peer_id \in DOMAIN net.discovered
    /\ last' = [op |-> "dial", arg |-> <<peer_id, net.discovered[peer_id].addresses>>,
                ok |-> dial_ok, res |-> "", again |-> FALSE]
    /\ UNCHANGED <<storeVars, ops, repoVars, metaVars, net>>

NextDiscovery ==
    \/ \E peer_id \in PeerIds, addr \in Addrs, dial_ok \in BOOLEAN :
            Discovered(peer_id, addr, dial_ok)
    \/ \E peer_id \in PeerIds, addr \in Addrs : Expired(peer_id, addr)
    \/ \E peer_id \in PeerIds, dial_ok \in BOOLEAN : Dial(peer_id, dial_ok)
    \/ Tick

SpecDiscovery == Init /\ [][NextDiscovery]_vars

(***************************************************************************)
(* Staging table operations (DatabaseManager)                              *)
(***************************************************************************)
StagedHashes == {Hash(<<A>>), Hash(<<A, A>>)}
StagedSizes == {0, CHUNK_SIZE}

\* DatabaseManager::add_to_staging(path, hash, size)
AddStaged(path, hash, size) ==
    /\ ops < MaxStageOps
    /\ ops' = ops + 1
    /\ staging' = AddToStaging(staging, path, hash, size)
    /\ last' = [op |-> "add_staged", arg |-> <<path, hash, size>>, ok |-> TRUE, res |-> "",
                again |-> \E r \in staging : r.file_path = path /\ r.file_hash # hash]
    /\ UNCHANGED <<objects, returned, commits, commit_parents, commit_files, HEAD, now,
                   put, metaVars, net>>

\* DatabaseManager::clear_staging()
ClearStaged ==
    /\ ops < MaxStageOps
    /\ ops' = ops + 1
    /\ staging' = ClearStaging
    /\ last' = [op |-> "clear_staging", arg |-> <<>>, ok |-> TRUE, res |-> "",
                again |-> FALSE]
    /\ UNCHANGED <<objects, returned, commits, commit_parents, commit_files, HEAD, now,
                   put, metaVars, net>>

NextStaging ==
    \/ \E path \in Paths, hash \in StagedHashes, size \in StagedSizes :
            AddStaged(path, hash, size)
    \/ ClearStaged

SpecStaging == Init /\ [][NextStaging]_vars

(***************************************************************************)
(* Fetch from a peer (the Fetch command of src/main.rs)                    *)
(***************************************************************************)
\* The object store of this section is the peer's.  The local copy of the
\* object file .fai/objects/<hash> that the command reads: none, or the bytes
\* the peer has under the digest.
LocalCopies(objs, hash) ==
    {NoData} \cup (IF hash \in DOMAIN objs THEN {SomeData(objs[hash])} ELSE {})

\* The download loop of the Fetch command over the chunks of the local
\* manifest: request_chunk for each chunk in order, an error on Ok(None).
\* lost is the index of the request that gets no response (0: none).
RECURSIVE FetchChunks(_, _, _, _)
FetchChunks(peer, chunks, i, lost) ==
    IF i > Len(chunks) THEN [ok |-> TRUE, data |-> <<>>, timeout |-> FALSE]
    ELSE IF i = lost THEN [ok |-> FALSE, data |-> <<>>, timeout |-> TRUE]
    ELSE LET a == ChunkResponse(peer, chunks[i])
             rest == FetchChunks(peer, chunks, i + 1, lost)
         IN  IF ~a.some THEN [ok |-> FALSE, data |-> <<>>, timeout |-> FALSE]
             ELSE IF ~rest.ok THEN rest
             ELSE [ok |-> TRUE, data |-> a.data \o rest.data, timeout |-> FALSE]

\* The Fetch command after the peer was discovered: data is the content
\* written to fetched_<hash>.dat (nothing is written when ok is FALSE).
FetchFile(peer, local, hash, lost) ==
    LET is_manifest == local.some /\ IsUtf8(local.data) /\ StartsWithBrace(local.data)
    IN  IF is_manifest
        THEN LET m == FromJson(local.data)
             IN  IF m.ok THEN FetchChunks(peer, m.chunks, 1, lost)
                 ELSE [ok |-> FALSE, data |-> <<>>, timeout |-> FALSE]
        ELSE FetchChunks(peer, <<hash>>, 1, lost)

\* Digests handed to fetch: every stored one, every returned one, and one
\* the peer lacks.
FetchDigests == DOMAIN objects \cup {p[2] : p \in returned} \cup {Hash(<<A, A>>)}

\* fai fetch <peer> <hash>
Fetch(hash, local, lost) ==
    /\ ops < MaxOps
    /\ ops' = ops + 1
    /\ LET r == FetchFile(objects, local, hash, lost)
       IN  last' = [op |-> "fetch", arg |-> hash, ok |-> r.ok, res |-> r.data,
                    again |-> local.some, cause |-> IF r.timeout THEN "timeout" ELSE "response"]
    /\ UNCHANGED <<storeVars, repoVars, metaVars, net>>

NextFetch ==
    \/ \E data \in Inputs : Store(data)
    \/ \E hash \in FetchDigests :
            \E local \in LocalCopies(objects, hash), lost \in 0..2 : Fetch(hash, local, lost)

SpecFetch == Init /\ [][NextFetch]_vars

(***************************************************************************)
(* Diff of two commits (the Diff command of src/main.rs)                   *)
(***************************************************************************)
\* c.hash.starts_with(&hash)
StartsWith(full, prefix) ==
    Len(prefix) <= Len(full) /\ SubSeq(full, 1, Len(prefix)) = prefix

\* DatabaseManager::get_commit(hash), else the commits of get_commit_history
\* whose hash starts with the argument, accepted when there is exactly one.
ResolveCommit(db, hash) ==
    IF hash \in DOMAIN db.commits
    THEN [ok |-> TRUE, hash |-> hash, matches |-> 1]
    ELSE LET matching_commits == {c \in DOMAIN db.commits : StartsWith(c, hash)}
         IN  IF Cardinality(matching_commits) = 1
             THEN [ok |-> TRUE, hash |-> CHOOSE c \in matching_commits : TRUE, matches |-> 1]
             ELSE [ok |-> FALSE, hash |-> "", matches |-> Cardinality(matching_commits)]

\* format!("Commit not found: {} (found {} matches)", hash, n)
NotFoundError(hash, n) ==
    "Commit not found: " \o hash \o " (found " \o ToString(n) \o " matches)"

\* The digests of the files of a commit, as a set.
FileHashes(db, hash) ==
    LET files == GetCommitFiles(db.commit_files, hash)
    IN  {files[i][2] : i \in 1..Len(files)}

\* removed computed as the files only in commit 2.
RemovedSwapped(files1_hashes, files2_hashes) == files2_hashes \ files1_hashes

\* files1_hashes.difference(&files2_hashes)
Removed(files1_hashes, files2_hashes) == files1_hashes \ files2_hashes

\* files2_hashes.difference(&files1_hashes)
Added(files1_hashes, files2_hashes) == files2_hashes \ files1_hashes

DiffFailure(outcome, error) ==
    [outcome |-> outcome, error |-> error, added |-> {}, removed |-> {}, unchanged |-> {}]

\* The Diff command.  &hash1[..8] and &hash2[..8] panic on an argument of
\* fewer than 8 bytes, before anything is looked up.
DiffCommits(db, hash1, hash2) ==
    IF Len(hash1) < 8 \/ Len(hash2) < 8 THEN DiffFailure("panic", "")
    ELSE LET c1 == ResolveCommit(db, hash1)
             c2 == ResolveCommit(db, hash2)
         IN  IF ~c1.ok THEN DiffFailure("error", NotFoundError(hash1, c1.matches))
             ELSE IF ~c2.ok THEN DiffFailure("error", NotFoundError(hash2, c2.matches))
             ELSE LET f1 == FileHashes(db, c1.hash)
                      f2 == FileHashes(db, c2.hash)
                  IN  [outcome |-> "ok", error |-> "",
                       added |-> Added(f1, f2),
                       removed |-> Removed(f1, f2),
                       unchanged |-> f1 \cap f2]

\* Lengths of the abbreviated digests handed to diff.
PrefixLens == {4, 8}

\* Arguments of diff: the digests of the stored commits, their abbreviations,
\* and a digest of no commit.
DiffArgs ==
    DOMAIN commits
        \cup {SubSeq(c, 1, n) : c \in DOMAIN commits, n \in PrefixLens}
        \cup {"deadbeef"}

\* fai diff <hash1> <hash2>; it reads the repository and changes nothing.
Diff(hash1, hash2) ==
    /\ LET r == DiffCommits(Db, hash1, hash2)
       IN  last' = [op |-> "diff", arg |-> <<hash1, hash2>>, ok |-> r.outcome = "ok",
                    res |-> r, again |-> FALSE]
    /\ UNCHANGED <<storeVars, ops, repoVars, metaVars, net>>

\* The repository is built by add, commit and pull, without failures.
NextDiff ==
    \/ \E path \in Paths, content \in LocalFiles : AddFile(path, TRUE, content)
    \/ Commit("m", "none")
    \/ Pull(<<RemoteCommit>>, [x \in RequestedHashes(<<RemoteCommit>>) |-> SomeData(RemoteFile)])
    \/ \E hash1, hash2 \in DiffArgs : Diff(hash1, hash2)

SpecDiff == Init /\ [][NextDiff]_vars

(***************************************************************************)
(* The object write of store_single_object, step by step, with a reader    *)
(* in another process (fai serve beside fai add)                           *)
(***************************************************************************)
\* Blobs handed to store_single_object.
Blobs == {b \in Inputs : Len(b) <= CHUNK_SIZE}

\* The file at the object path holds the first bytes of the blob, not all.
PartlyWritten(objs, blob) ==
    /\ Hash(blob) \in DOMAIN objs
    /\ Len(objs[Hash(blob)]) < Len(blob)
    /\ objs[Hash(blob)] = SubSeq(blob, 1, Len(objs[Hash(blob)]))

\* fs::write(&object_path, data), its first step: File::create makes the
\* empty file at the final object path (the path did not exist).
BeginWrite(blob) ==
    /\ ops < MaxOps
    /\ ops' = ops + 1
    /\ Hash(blob) \notin DOMAIN objects
    /\ objects' = [d \in DOMAIN objects \cup {Hash(blob)} |->
                      IF d = Hash(blob) THEN <<>> ELSE objects[d]]
    /\ returned' = IF blob = <<>> THEN returned \cup {<<blob, Hash(blob)>>} ELSE returned
    /\ last' = [op |-> "create", arg |-> blob, ok |-> TRUE, res |-> Hash(blob), again |-> FALSE]
    /\ UNCHANGED <<repoVars, metaVars, net>>

\* fs::write, a later step: write_all appends the next n bytes; after the
\* last byte store_single_object returns Ok(hash).  A writer that is
\* interrupted takes no further step.
WriteMore(blob, n) ==
    /\ ops < MaxOps
    /\ ops' = ops + 1
    /\ PartlyWritten(objects, blob)
    /\ n <= Len(blob) - Len(objects[Hash(blob)])
    /\ LET k == Len(objects[Hash(blob)]) + n
       IN  /\ objects' = [objects EXCEPT ![Hash(blob)] = SubSeq(blob, 1, k)]
           /\ returned' = IF k = Len(blob) THEN returned \cup {<<blob, Hash(blob)>>}
                                            ELSE returned
    /\ last' = [op |-> "write", arg |-> blob, ok |-> TRUE, res |-> Hash(blob), again |-> FALSE]
    /\ UNCHANGED <<repoVars, metaVars, net>>

\* A reader opens the object path: retrieve_single_chunk(hash) in another
\* process.
ReadObject(hash) ==
    /\ ops < MaxOps
    /\ ops' = ops + 1
    /\ LET r == RetrieveSingleChunk(objects, hash)
       IN  last' = [op |-> "read", arg |-> hash, ok |-> r.ok, res |-> r.data, again |-> FALSE]
    /\ UNCHANGED <<storeVars, repoVars, metaVars, net>>

NextWrite ==
    \/ \E blob \in Blobs : BeginWrite(blob)
    \/ \E blob \in Blobs, n \in 1..CHUNK_SIZE : WriteMore(blob, n)
    \/ \E hash \in DOMAIN objects \cup {Hash(<<A, A>>)} : ReadObject(hash)

SpecWrite == Init /\ [][NextWrite]_vars

(***************************************************************************)
(* Properties of the object store                                          *)
(***************************************************************************)
\* C1: retrieve of a digest that store returned for bytes b succeeds and
\* returns exactly b, for every b.
StoreRetrieveRoundTrip ==
    last.op = "retrieve" =>
        \A p \in returned : p[2] = last.arg => (last.ok /\ last.res = p[1])

\* C2 (I1): every object stored under digest d has bytes whose hash is d.
Integrity ==
    \A d \in DOMAIN objects : Hash(objects[d]) = d

\* C3: a store of bytes that an earlier store already returned a digest for
\* succeeds with the same digest and leaves the object store as it was.
StoreIdempotent ==
    [][(last'.op = "store" /\ ops' = ops + 1
            /\ \E p \in returned : p[1] = last'.arg)
        => /\ objects' = objects
           /\ last'.ok
           /\ \A p \in returned : p[1] = last'.arg => last'.res = p[2]]_vars

\* C3 witness: a payload larger than one chunk was stored a second time.
StoredTwice ==
    /\ last.op = "store"
    /\ last.again
    /\ last.ok
    /\ Len(last.arg) > CHUNK_SIZE

\* C4 (I2): every chunk digest listed by a stored object that retrieve treats
\* as a manifest resolves to a stored object.
ChunkClosure ==
    \A d \in DOMAIN objects :
        LET data == objects[d]
            m == FromJson(data)
        IN  (IsUtf8(data) /\ StartsWithBrace(data) /\ m.ok)
                => \A i \in 1..Len(m.chunks) : m.chunks[i] \in DOMAIN objects

(***************************************************************************)
(* Claims about the repository (SpecRepo)                                  *)
(***************************************************************************)
\* DatabaseManager::get_commit_history(None): every row of commits.
GetCommitHistory(cs) == DOMAIN cs

\* The step is a call of the operation op.
Called(op) == ops' = ops + 1 /\ last'.op = op

\* C5: after commit(msg) returned a digest, the staging area is empty and
\* get_head() is the returned digest.
CommitPost ==
    (last.op = "commit" /\ last.ok) =>
        /\ GetStagedFiles(staging) = <<>>
        /\ GetHead(HEAD) = Some(last.res)

\* C5 witness: a commit on top of a parent commit returned its digest.
CommittedOnParent ==
    /\ last.op = "commit" /\ last.ok
    /\ \E r \in commit_parents : r.commit_hash = last.res

\* C6: a commit(message) that returns an error leaves HEAD and the staging
\* area as they were before the call.
CommitAllOrNothing ==
    [][(Called("commit") /\ ~last'.ok) => (HEAD' = HEAD /\ staging' = staging)]_vars

\* C7: for every commit digest that create_commit was asked to insert, either
\* the commit row, all parent rows and all file rows passed to it are in
\* db.sqlite, or none of them is.
Transactional ==
    /\ \A h \in DOMAIN put :
          h \in DOMAIN commits =>
            /\ GetParents(commit_parents, h) = put[h].parents
            /\ GetCommitFiles(commit_files, h) = put[h].files
    /\ \A r \in commit_parents \cup commit_files : r.commit_hash \in DOMAIN commits

MetaFiles(mfiles, hash) == {r.file_hash : r \in {x \in mfiles : x.commit_hash = hash}}

\* The rows of db.sqlite and of metadata.db under digest h are the same
\* before and after the step.
SameCommit(h) ==
    /\ h \in DOMAIN commits =>
          /\ h \in DOMAIN commits' /\ commits'[h] = commits[h]
          /\ GetParents(commit_parents', h) = GetParents(commit_parents, h)
          /\ GetCommitFiles(commit_files', h) = GetCommitFiles(commit_files, h)
    /\ h \in DOMAIN mcommits =>
          /\ h \in DOMAIN mcommits' /\ mcommits'[h] = mcommits[h]
          /\ MetaFiles(mcommit_files', h) = MetaFiles(mcommit_files, h)

\* C8: a put of a commit whose digest is already stored (create_commit in
\* commit and pull, save_remote_commit in pull) returns success and leaves
\* the commit row, its parents and its file rows unchanged.
PutCommitIdempotent ==
    [][/\ Called("pull") =>
            \A i \in 1..Len(last'.arg) :
                (last'.arg[i].hash \in DOMAIN commits \cup DOMAIN mcommits) =>
                    (last'.ok /\ SameCommit(last'.arg[i].hash))
       /\ (Called("commit") /\ last'.again) =>
            \A h \in DOMAIN commits : SameCommit(h)]_vars

\* C9: no step changes the message, timestamp, parents or file list of a
\* commit that is stored.
CommitsImmutable ==
    [][\A h \in DOMAIN commits \cup DOMAIN mcommits : SameCommit(h)]_vars

\* The (path, digest, size) entries staged when the commit of digest h was
\* created: on the peer for a pulled commit, locally otherwise.
FilesAtCommitTime(h) ==
    IF put[h].origin = "pull" THEN RemoteStaged ELSE put[h].files

\* C10: for every commit c of the log, commit_files(c) is the list of
\* entries staged when c was created, ordered by path.
CommitFilesRoundTrip ==
    \A h \in GetCommitHistory(commits) :
        GetCommitFiles(commit_files, h) = FilesAtCommitTime(h)

\* C11: commit on an empty staging area fails with the Empty error and
\* leaves HEAD, the stored commits and the staging area unchanged.
CommitEmptyFails ==
    [][(Called("commit") /\ GetStagedFiles(staging) = <<>>)
        => /\ ~last'.ok
           /\ last'.res = EmptyError
           /\ HEAD' = HEAD
           /\ staging' = staging
           /\ commits' = commits
           /\ commit_parents' = commit_parents
           /\ commit_files' = commit_files]_vars

\* C11 witness: a commit was refused as empty in a repository that already
\* has a commit.
EmptyCommitRefused ==
    /\ last.op = "commit"
    /\ ~last.ok
    /\ last.res = EmptyError
    /\ commits # <<>>

\* The entries of a staged-file list under one path.
EntriesOf(files, path) == SelectSeq(files, LAMBDA e : e[1] = path)

\* C12 (I5): after add_staged(path, hash, size) the list of staged files has
\* exactly one entry for path, carrying that hash and size, the entries of
\* the other paths are as before, and no path appears twice.
StagingUnique ==
    [][Called("add_staged")
        => LET a == last'.arg
               before == GetStagedFiles(staging)
               after == GetStagedFiles(staging')
           IN  /\ EntriesOf(after, a[1]) = <<a>>
               /\ \A q \in Paths \ {a[1]} : EntriesOf(after, q) = EntriesOf(before, q)
               /\ \A q \in Paths : Len(EntriesOf(after, q)) <= 1]_vars

\* C12 witness: a path staged with one digest was staged again with another
\* while a second path is staged.
StagedAgain ==
    /\ last.op = "add_staged"
    /\ last.again
    /\ Cardinality(staging) = 2

CommitClosure ==
    /\ \A r \in commit_files : Exists(objects, r.file_hash)
    /\ \A r \in mcommit_files : Exists(objects, r.file_hash)

\* C15: after a clone that reports success, every commit of the peer's log
\* is in the clone's db.sqlite and metadata.db, and every file digest of
\* every such commit is in the clone's object store.
CloneComplete ==
    (last.op = "clone" /\ last.ok) =>
        \A i \in 1..Len(PeerLog) :
            /\ PeerLog[i].hash \in DOMAIN commits
            /\ PeerLog[i].hash \in DOMAIN mcommits
            /\ \A j \in 1..Len(PeerLog[i].file_hashes) :
                    Exists(objects, PeerLog[i].file_hashes[j])

\* C16: after a clone that reports success, the clone's log is the peer's
\* log: the same commits (message, timestamp, parents) in the same
\* newest-first order, and retrieve of each file digest gives the bytes the
\* peer has.
CloneLogEqual ==
    (last.op = "clone" /\ last.ok) =>
        /\ LogOrders(commits) = {[i \in 1..Len(PeerLog) |-> PeerLog[i].hash]}
        /\ \A i \in 1..Len(PeerLog) :
            LET c == PeerLog[i]
            IN  /\ c.hash \in DOMAIN commits
                /\ commits[c.hash].message = c.message
                /\ commits[c.hash].timestamp = c.timestamp
                /\ GetParents(commit_parents, c.hash) = PeerParents(c.hash)
                /\ \A j \in 1..Len(c.file_hashes) :
                        Retrieve(objects, c.file_hashes[j]) = Retrieve(PeerObjects, c.file_hashes[j])

\* The received commit that no other received commit lists as a parent.
Tip(received) ==
    CHOOSE h \in {received[i].hash : i \in 1..Len(received)} :
        \A i \in 1..Len(received) :
            \A k \in 1..Len(PeerParents(received[i].hash)) :
                PeerParents(received[i].hash)[k] # h

\* C17: after a clone that reports success and received commits, HEAD of the
\* new repository is the tip of the received commits.
CloneHeadIsTip ==
    (last.op = "clone" /\ last.ok /\ last.arg # <<>>) =>
        GetHead(HEAD) = Some(Tip(last.arg))

\* C18: a pull, successful or not, leaves HEAD as it was.
PullKeepsHead ==
    [][Called("pull") => HEAD' = HEAD]_vars

\* C18 witness: a pull saved a commit while HEAD names a local commit.
PulledUnderHead ==
    /\ last.op = "pull"
    /\ mcommits # <<>>
    /\ GetHead(HEAD).some
    /\ GetHead(HEAD).hash \in DOMAIN commits

\* The peer's object store lacks the digest of a chunk request.
Lacks(request) ==
    request.kind = "chunk" /\ ~Retrieve(PeerObjects, request.hash).ok

\* C19: the responder sends one response for every request it handled, with
\* data = None for a chunk request whose digest its object store lacks, and
\* so also for the requests that follow such a request.
ResponderAnswers ==
    /\ Len(net.sent) = Len(net.handled)
    /\ \A i \in 1..Len(net.handled) :
          /\ i <= Len(net.sent)
          /\ net.sent[i].id = net.handled[i].id
          /\ net.sent[i].kind = net.handled[i].kind
          /\ Lacks(net.handled[i]) => net.sent[i].data = NoData

\* C19 witness: the responder answered a request after it had answered a
\* chunk request for a digest it lacks.
AnsweredAfterMiss ==
    /\ Len(net.handled) >= 2
    /\ Len(net.sent) = Len(net.handled)
    /\ Lacks(net.handled[1])
    /\ net.sent[1].data = NoData
    /\ ~Lacks(net.handled[2])

\* C20: a request_chunk whose wait ended without a response fails with a
\* Timeout error, which differs from the result of a response without data
\* and from the result of the call when the peer is not connected.
TimeoutIsError ==
    (last.op = "request_chunk" /\ last.cause = "timeout") =>
        (~last.ok /\ last.res = "Timeout")

(***************************************************************************)
(* Claims about fetch (SpecFetch)                                          *)
(***************************************************************************)
\* Every chunk of the payload b, and the manifest stored under digest d, is
\* in the peer's object store.
ChunksAvailable(b, d) ==
    /\ d \in DOMAIN objects
    /\ \A i \in 1..Len(ChunkFile(b)) : Hash(ChunkFile(b)[i]) \in DOMAIN objects

\* C21: a fetch of a manifest digest that store returned on the peer for the
\* input b writes exactly b when every chunk is available and every request
\* is answered; otherwise it fails and writes nothing.
FetchRoundTrip ==
    last.op = "fetch" =>
        \A p \in returned :
            (p[2] = last.arg /\ Len(p[1]) > CHUNK_SIZE) =>
                IF ChunksAvailable(p[1], p[2]) /\ last.cause = "response"
                THEN last.ok /\ last.res = p[1]
                ELSE ~last.ok /\ last.res = <<>>

(***************************************************************************)
(* Claims about the commit log and diff                                    *)
(***************************************************************************)
\* The characters of the model's digests, in byte order.
Alphabet == " \",.0123456789<>\\_abcdefghijklmnopqrstuvwxyz{}"

CharRank(c) == CHOOSE i \in 1..Len(Alphabet) : SubSeq(Alphabet, i, i) = c

\* SQLite's comparison of two TEXT values (BINARY collation), a > b, from
\* the i-th character on.
RECURSIVE TextGreater(_, _, _)
TextGreater(a, b, i) ==
    IF i > Len(a) THEN FALSE
    ELSE IF i > Len(b) THEN TRUE
    ELSE LET x == CharRank(SubSeq(a, i, i))
             y == CharRank(SubSeq(b, i, i))
         IN  IF x # y THEN x > y ELSE TextGreater(a, b, i + 1)

\* C22: every list get_commit_history(None) may return holds all stored
\* commits, ordered by timestamp descending and, for equal timestamps, by
\* hash descending.
ListCommitsOrdered ==
    \A o \in LogOrders(commits) :
        /\ {o[i] : i \in DOMAIN o} = DOMAIN commits
        /\ \A i, j \in DOMAIN o :
              i < j =>
                \/ commits[o[i]].timestamp > commits[o[j]].timestamp
                \/ /\ commits[o[i]].timestamp = commits[o[j]].timestamp
                   /\ TextGreater(o[i], o[j], 1)

Matches(hash) == {c \in DOMAIN commits : StartsWith(c, hash)}

\* The i-th argument of the last diff is no stored digest and two or more
\* stored commits start with it.
Ambiguous(i) ==
    last.arg[i] \notin DOMAIN commits /\ Cardinality(Matches(last.arg[i])) >= 2

\* C24: a diff whose two arguments are full stored digests succeeds; an
\* argument that is not a full stored digest resolves only if exactly one
\* stored commit starts with it; and a diff whose first unresolved argument
\* is one that two or more commits start with fails with an error, which is
\* not the error of an argument that no commit starts with.
DiffPrefixResolution ==
    last.op = "diff" =>
        /\ (last.arg[1] \in DOMAIN commits /\ last.arg[2] \in DOMAIN commits) => last.ok
        /\ last.ok =>
              \A i \in 1..2 :
                  last.arg[i] \notin DOMAIN commits => Cardinality(Matches(last.arg[i])) = 1
        /\ \A i \in 1..2 :
              (Ambiguous(i) /\ \A k \in 1..(i - 1) : ResolveCommit(Db, last.arg[k]).ok)
                  => /\ last.res.outcome = "error"
                     /\ last.res.error # NotFoundError(last.arg[i], 0)

NoTornRead ==
    (last.op = "read" /\ last.ok) => Hash(last.res) = last.arg

(***************************************************************************)
(* Claims about chunking (SpecStore)                                       *)
(***************************************************************************)
\* The i-th of the contiguous pieces of CHUNK_SIZE bytes of b, the last one
\* possibly shorter.
Piece(b, i) == SubSeq(b, (i - 1) * CHUNK_SIZE + 1, Min(i * CHUNK_SIZE, Len(b)))

\* ceil(len(b) / CHUNK_SIZE)
NumPieces(b) == (Len(b) + CHUNK_SIZE - 1) \div CHUNK_SIZE

\* C27: a store(b) that returns a digest returns hash(b), stored as one
\* blob, iff len(b) <= CHUNK_SIZE; otherwise it returns the digest of the
\* stored manifest that lists the digests of the ceil(len(b)/CHUNK_SIZE)
\* contiguous pieces of b in order, with total_size = len(b), and every
\* piece is stored under its digest.
ChunkingRule ==
    (last.op = "store" /\ last.ok) =>
        LET b == last.arg
            n == NumPieces(b)
            m == FromJson(IF last.res \in DOMAIN objects /\ Hash(objects[last.res]) = last.res
                          THEN objects[last.res] ELSE <<>>)
        IN  IF Len(b) <= CHUNK_SIZE
            THEN last.res = Hash(b) /\ Exists(objects, Hash(b))
            ELSE /\ last.res # Hash(b)
                 /\ last.res = Hash(ToJson(Len(b), [i \in 1..n |-> Hash(Piece(b, i))]))
                 /\ Exists(objects, last.res)
                 /\ \A i \in 1..n : Exists(objects, Hash(Piece(b, i)))
                 /\ \A i \in 1..n :
                        Len(Piece(b, i)) = IF i < n THEN CHUNK_SIZE
                                           ELSE Len(b) - (n - 1) * CHUNK_SIZE
                 /\ m.ok => /\ m.total_size = Len(b)
                            /\ Len(m.chunks) = n

\* C27 witness: a store of a payload of two full chunks and a shorter third
\* one returned a digest.
StoredThreeChunks ==
    /\ last.op = "store"
    /\ last.ok
    /\ NumPieces(last.arg) = 3
    /\ Len(Piece(last.arg, 3)) < CHUNK_SIZE
    /\ FromJson(objects[last.res]).ok

(***************************************************************************)
(* Claims about the responders (SpecNet)                                   *)
(***************************************************************************)
\* C28: every response to a chunk request for a digest d that is in the
\* responder's object store carries the bytes stored under d as they are,
\* also when they are a manifest.
ResponderServesRaw ==
    \A i \in 1..Len(net.sent) :
        (net.sent[i].kind = "chunk" /\ net.sent[i].hash \in DOMAIN PeerObjects)
            => net.sent[i].data = SomeData(PeerObjects[net.sent[i].hash])

\* C29: the response to a commit request with commit_hash = h holds exactly
\* the stored commit h, or nothing when h is not stored; the response to a
\* request without commit_hash holds every stored commit once; and every
\* commit of a response carries the digests of all files of that commit.
CommitResponderAnswers ==
    \A i \in 1..Len(net.handled) :
        (net.handled[i].kind = "commit" /\ i <= Len(net.sent)) =>
            LET h == net.handled[i].hash
                cs == net.sent[i].commits
            IN  /\ IF h = NoCommitHash
                   THEN /\ {cs[k].hash : k \in 1..Len(cs)} = DOMAIN PeerDb.commits
                        /\ Len(cs) = Cardinality(DOMAIN PeerDb.commits)
                   ELSE IF h \in DOMAIN PeerDb.commits
                   THEN Len(cs) = 1 /\ cs[1].hash = h
                   ELSE cs = <<>>
                /\ \A k \in 1..Len(cs) :
                      /\ cs[k].message = PeerDb.commits[cs[k].hash].message
                      /\ cs[k].timestamp = PeerDb.commits[cs[k].hash].timestamp
                      /\ cs[k].file_hashes =
                            LET files == GetCommitFiles(PeerDb.commit_files, cs[k].hash)
                            IN  [j \in 1..Len(files) |-> files[j][2]]

(***************************************************************************)
(* Claims about the commit chain (SpecRepo)                                *)
(***************************************************************************)
\* C30: a commit that commit() created and returned is no merge commit and
\* its parents are the digest HEAD held just before the call, or none when
\* HEAD held the symbolic branch reference (or there was no HEAD file).
CommitParentIsHead ==
    [][(Called("commit") /\ last'.ok /\ ~last'.again)
        => /\ last'.res \in DOMAIN commits'
           /\ last'.res \notin DOMAIN commits
           /\ ~commits'[last'.res].is_merge
           /\ GetParents(commit_parents', last'.res) =
                 IF HEAD = DefaultRef \/ HEAD = NoFile THEN <<>> ELSE <<HEAD>>]_vars

\* C30 witness: the second of two successive commits was created on top of
\* the first, which has no parent.
SecondCommitOnFirst ==
    /\ last.op = "commit" /\ last.ok /\ ~last.again
    /\ \E c1 \in DOMAIN put :
          /\ put[c1].origin = "commit"
          /\ GetParents(commit_parents, c1) = <<>>
          /\ GetParents(commit_parents, last.res) = <<c1>>
          /\ HEAD = last.res

(***************************************************************************)
(* Properties of the network engine, the staging area and HEAD             *)
(***************************************************************************)
\* C31: create_commit (put_commit) of a new commit whose parent digest is not
\* in the local commits table succeeds, and stores the commit together with
\* the reference to that parent; checked for a call whose inserts meet no
\* I/O error, in every state of the repository.
PutCommitAnyOrder ==
    \A parent \in {"deadbeef", RemoteCommit.hash} :
        parent \notin DOMAIN commits =>
            LET c == CreateCommit(Db, "c0ffee", "m", <<parent>>, <<>>, FALSE, now, "none")
            IN  /\ c.ok
                /\ "c0ffee" \in DOMAIN c.db.commits
                /\ [commit_hash |-> "c0ffee", parent_hash |-> parent, parent_order |-> 0]
                        \in c.db.commit_parents

\* C32: request_chunk returns only the data of the response whose request ID
\* equals the ID of the request it sent: whenever a chunk request ends with a
\* response, that response carried the ID of the pending request, its data is
\* the result of the call, and it is the response that was consumed.
RequestChunkCorrelated ==
    [][(/\ net.pending # <<>>
        /\ net.pending[1].kind = "chunk"
        /\ net'.pending = <<>>
        /\ last'.cause = "response")
       => \E r \in net.wire :
            /\ r.kind = "chunk"
            /\ r.id = net.pending[1].id
            /\ last'.res = r.data
            /\ net'.wire = net.wire \ {r}]_vars

\* A chunk request returned the data of its response while the response to an
\* earlier request, with other data, was waiting as well.
StaleResponseIgnored ==
    /\ net.pending = <<>>
    /\ last.op = "request_chunk"
    /\ last.cause = "response"
    /\ last.res.some
    /\ \E r \in net.wire :
          /\ r.kind = "chunk"
          /\ r.id < net.next_id - 1
          /\ r.data.some
          /\ r.data # last.res

\* C33: every request_chunk and request_commits call eventually returns, also
\* when the peer never responds and the network delivers no further event
\* after the request was sent.
RequestsReturn == (net.pending # <<>>) ~> (net.pending = <<>>)

\* C34: a node that awaits the response to its own chunk or commit request
\* still handles the requests of the peer that arrive in the meantime: every
\* inbound request has its response, in the order of arrival, for the same
\* kind and digest.
ServesWhileAwaiting ==
    /\ Len(net.outbox) = Len(net.inbound)
    /\ \A i \in 1..Len(net.inbound) :
          /\ net.outbox[i].id = net.inbound[i].id
          /\ net.outbox[i].kind = net.inbound[i].kind
          /\ net.outbox[i].hash = net.inbound[i].hash

\* A chunk request was answered while a commit request was awaited, and a
\* commit request was answered, with a commit, while a chunk request was
\* awaited.
ServedInBothLoops ==
    /\ \E i \in 1..Len(net.inbound) :
          /\ net.inbound[i].kind = "chunk"
          /\ net.inbound[i].awaiting = "commit"
          /\ Len(net.outbox) >= i
    /\ \E i \in 1..Len(net.inbound) :
          /\ net.inbound[i].kind = "commit"
          /\ net.inbound[i].awaiting = "chunk"
          /\ Len(net.outbox) >= i
          /\ net.outbox[i].commits # <<>>

\* C39: pending_commit_responses holds entries only for commit requests that
\* are still awaited: every request ID in the table is the ID of the pending
\* commit request.
PendingTableClean ==
    \A id \in DOMAIN net.table :
        /\ net.pending # <<>>
        /\ net.pending[1].kind = "commit"
        /\ net.pending[1].id = id

\* C35: the Clone command fails when request_commits returned an empty commit
\* list (the peer has no commits, is not connected, or the request timed out).
CloneEmptyFails ==
    (last.op = "clone" /\ last.arg = <<>>) => ~last.ok

\* C36: in every state of the object store, retrieve of a digest that is not
\* stored, or of a digest string shorter than 2 characters, returns an error,
\* and exists returns false for the same digest.
MissingIsAbsent ==
    \A hash \in {"", "a", "<<", Hash(<<A, A>>)} :
        (Len(hash) < 2 \/ hash \notin DOMAIN objects) =>
            /\ ~Retrieve(objects, hash).ok
            /\ ~Exists(objects, hash)

\* C37: after every step, the digest of every staging entry exists in the
\* object store, and an add that fails leaves the staging table unchanged.
StagedObjectsExist ==
    [][/\ \A r \in staging' : Exists(objects', r.file_hash)
       /\ (Called("add") /\ ~last'.ok) => staging' = staging]_vars

\* An add failed while the staging table held the entry of an earlier add.
AddFailedAfterAdd ==
    /\ last.op = "add"
    /\ ~last.ok
    /\ \E r \in staging : Exists(objects, r.file_hash)

\* C38: in every reachable state HEAD is the symbolic branch reference written
\* by init or the digest of a commit stored in the commits table, after any
\* sequence of add, commit and update_head calls.
HeadNamesCommit ==
    HEAD = DefaultRef \/ HEAD \in DOMAIN commits

\* C40: a peer stays in discovered_peers as long as one of its discovered
\* addresses has not expired (an entry is removed only when the peer has no
\* unexpired address left), and a failed dial leaves the table as it was.
PeerKeptWhileLive ==
    [][/\ \A peer_id \in PeerIds :
            (\E addr \in Addrs : <<peer_id, addr>> \in net'.live)
                => peer_id \in DOMAIN net'.discovered
       /\ (last'.op \in {"dial", "discovered"} /\ ~last'.ok)
            => \A peer_id \in DOMAIN net.discovered :
                    /\ peer_id \in DOMAIN net'.discovered
                    /\ \A i \in 1..Len(net.discovered[peer_id].addresses) :
                          net'.discovered[peer_id].addresses[i]
                            = net.discovered[peer_id].addresses[i]]_vars

====
